---- MODULE Spec2Model ----
(***************************************************************************)
(* The in-memory todo store of inversify-zustand-todo                      *)
(* (src/src/stores/todoStore.ts, TodoStoreFactory) together with the       *)
(* MockLoggingService that records what the store logs.                    *)
(* Further specifications cover observers of the store, a logging service  *)
(* that throws, the operations statement by statement, the stores of        *)
(* DecoratedTodoStoreFactory and createTodoStoreWithManualDI beside it,     *)
(* and the class components that subscribe to it.                           *)
(*                                                                         *)
(* Strings are sequences of one-character strings, so that trim() and      *)
(* Number.prototype.toString() are computed and not assumed.               *)
(***************************************************************************)
EXTENDS Integers, Sequences, FiniteSets

\* ---------------------------------------------------------------- bounds
MaxCalls == 3      \* number of store operations in one run
MaxClock == 1      \* Date.now() ranges over ClockBase .. ClockBase + MaxClock
ClockBase == 8     \* smallest clock reading (ids cross from one digit to two)

\* ------------------------------------------------------- program constants
IdCounterInit == 1 \* let idCounter = 1

\* ---------------------------------------------------------------- strings
\* the characters String.prototype.trim removes (those the tests use)
WhiteSpace == {" ", "\t", "\n"}

\* the texts handed to addTodo: '', ' ', '\t\n', 'a', ' a b\n'
Texts ==
    { <<>>,
      <<" ">>,
      <<"\t", "\n">>,
      <<"a">>,
      <<" ", "a", " ", "b", "\n">> }

\* the argument tests pass for an id that no todo has ('non-existent-id')
MissingId == <<"x">>

Times == ClockBase..(ClockBase + MaxClock)

RECURSIVE TrimStart(_)
TrimStart(s) ==
    IF s # <<>> /\ Head(s) \in WhiteSpace THEN TrimStart(Tail(s)) ELSE s

RECURSIVE TrimEnd(_)
TrimEnd(s) ==
    IF s # <<>> /\ s[Len(s)] \in WhiteSpace
    THEN TrimEnd(SubSeq(s, 1, Len(s) - 1))
    ELSE s

\* mutant of Trim: only the leading white space is removed
TrimLeadingOnly(s) == TrimStart(s)

\* String.prototype.trim
Trim(s) == TrimEnd(TrimStart(s))

Digits == <<"0", "1", "2", "3", "4", "5", "6", "7", "8", "9">>

\* Number.prototype.toString of a non-negative integer
RECURSIVE ToString(_)
ToString(n) ==
    IF n < 10
    THEN <<Digits[n + 1]>>
    ELSE ToString(n \div 10) \o <<Digits[(n % 10) + 1]>>

\* ------------------------------------------------------------------ state
\* the observers that can register a callback with store.subscribe
Observers == {"o1", "o2"}

VARIABLES
    todos,      \* TodoState.todos, by value
    idCounter,  \* the constructor's idCounter
    now,        \* the wall clock, what Date.now() returns
    infoLogs,   \* MockLoggingService.infoLogs
    warnLogs,   \* MockLoggingService.warnLogs
    errorLogs,  \* MockLoggingService.errorLogs
    issued,     \* every id addTodo has generated, in order of generation
    calls,      \* the operations called so far, each with the state it met
    objects,    \* the Todo objects allocated so far; a reference is an index
    origin,     \* per object, the idCounter value of the addTodo call whose
                \* todo it is (a {...todo} copy is the same todo)
    arrays,     \* the Todo[] arrays allocated so far, each a sequence of
                \* object references; a reference is an index
    stateRef,   \* the reference of the array that is state.todos
    listeners,  \* the callbacks registered with the store
    delivered,  \* per observer, the todos its callback was invoked with
    unsubs,     \* per observer, how often it called its unsubscribe function
    thrown,     \* what the last operation threw to its caller, or "none"
    raising,    \* the levels at which the injected logging service throws
    pc,         \* where the operation in progress stands, with its locals
    stores,     \* further stores, by name: implementation, todos, idCounter
                \* and the logging service each was created with
    loggers,    \* the mock logging services of those stores, by name
    script,     \* the operations those stores are driven by, each with the
                \* clock reading it is run at
    pos,        \* per further store, how much of the script it has run
    component   \* a subscribing component (InjectableTodoList,
                \* InjectedTodoApp): whether it is constructed, its
                \* state.todos, its unsubscribe field and the number of
                \* componentDidMount calls so far

storeVars == <<todos, objects, origin, arrays, stateRef, delivered>>
logVars == <<infoLogs, warnLogs, errorLogs>>

\* what lies outside the store and its mock logger
\* several stores side by side
fleetVars == <<stores, loggers, script, pos>>

extVars == <<raising, pc, fleetVars, component>>

vars == <<todos, idCounter, now, infoLogs, warnLogs, errorLogs, issued, calls,
          objects, origin, arrays, stateRef, listeners, delivered, unsubs,
          thrown, raising, pc, stores, loggers, script, pos, component>>

\* the store TodoStoreFactory's constructor leaves, its logger and callers
InitStore ==
    /\ todos = <<>>
    /\ idCounter = IdCounterInit
    /\ now \in Times
    /\ infoLogs = <<>>
    /\ warnLogs = <<>>
    /\ errorLogs = <<>>
    /\ issued = <<>>
    /\ calls = <<>>
    /\ objects = <<>>
    /\ origin = <<>>
    /\ arrays = << <<>> >>
    /\ stateRef = 1
    /\ listeners = {}
    /\ delivered = [o \in Observers |-> <<>>]
    /\ unsubs = [o \in Observers |-> 0]
    /\ thrown = "none"
    /\ raising = {}
    /\ pc = [at |-> "idle", local |-> <<>>]

\* no further store has been created
NoFleet ==
    /\ stores = <<>>
    /\ loggers = <<>>
    /\ script = <<>>
    /\ pos = <<>>

\* no component has been constructed
NoComponent ==
    component = [constructed |-> FALSE, todos |-> <<>>,
                 unsubscribe |-> "null", mounts |-> 0]

Init == InitStore /\ NoFleet /\ NoComponent

\* --------------------------------------------------------- array helpers
\* Array.prototype.findIndex(todo => todo.id === id), 0 standing for -1
FindIndex(ts, id) ==
    IF \E i \in 1..Len(ts) : ts[i].id = id
    THEN CHOOSE i \in 1..Len(ts) :
            /\ ts[i].id = id
            /\ \A j \in 1..(i - 1) : ts[j].id # id
    ELSE 0

\* mutant of MapToggle: the test is inverted (todo.id !== id)
MapToggleOthers(ts, id) ==
    [i \in 1..Len(ts) |->
        IF ts[i].id # id
        THEN [ts[i] EXCEPT !.completed = ~ts[i].completed]
        ELSE ts[i]]

\* mutant of MapToggle: completed is set, not negated
MapToggleSetsTrue(ts, id) ==
    [i \in 1..Len(ts) |->
        IF ts[i].id = id THEN [ts[i] EXCEPT !.completed = TRUE] ELSE ts[i]]

\* state.todos.map(todo => todo.id === id ? {...todo, completed: !todo.completed} : todo)
MapToggle(ts, id) ==
    [i \in 1..Len(ts) |->
        IF ts[i].id = id
        THEN [ts[i] EXCEPT !.completed = ~ts[i].completed]
        ELSE ts[i]]

KeepOther(t, id) == t.id # id

\* state.todos.filter(todo => todo.id !== id)
FilterOut(ts, id) == SelectSeq(ts, LAMBDA t : KeepOther(t, id))

\* the array a reference stands for, by value
Deref(ref) == [k \in 1..Len(arrays[ref]) |-> objects[arrays[ref][k]]]

\* the references of state.todos
StateRefs == arrays[stateRef]

\* the references map() returns: where the id matches a new object that
\* {...todo, ...} copies from object r (marked -r), elsewhere the same object
MapRefs(id) ==
    [i \in 1..Len(StateRefs) |->
        IF objects[StateRefs[i]].id = id THEN 0 - StateRefs[i] ELSE StateRefs[i]]

\* the references filter() returns
FilterRefs(id) == SelectSeq(StateRefs, LAMBDA r : KeepOther(objects[r], id))

\* ------------------------------------------------------ logging service
\* the levels an ILoggingService can be called at by the store
Levels == {"info", "warn"}

\* the injected service throws at this level (ErrorThrowingLogger.info:
\* throw new Error('Logging failed'))
Raises(level) == level \in raising

info(message, data) ==
    /\ infoLogs' = Append(infoLogs, [message |-> message, data |-> data])
    /\ UNCHANGED <<warnLogs, errorLogs>>

warn(message, data) ==
    /\ warnLogs' = Append(warnLogs, [message |-> message, data |-> data])
    /\ UNCHANGED <<infoLogs, errorLogs>>

\* ------------------------------------------------------------ the store
\* listeners.forEach(listener => listener(state, previousState))
Notify(newTodos) ==
    delivered' = [o \in Observers |->
                    IF o \in listeners
                    THEN Append(delivered[o], newTodos)
                    ELSE delivered[o]]

\* set(state => ({ todos: updatedTodos })): the updater built a new array
\* whose entries are existing objects (reuse[i] > 0 is the reference), the
\* object literal of addTodo (reuse[i] = 0) or copies {...todo, ...} of an
\* existing object r (reuse[i] = -r); the result is not the old state
\* object, so it is merged into a new state and the listeners are called
set(updatedTodos, reuse) ==
    LET fresh(i) == Cardinality({j \in 1..i : reuse[j] <= 0})
        at(k) == CHOOSE i \in 1..Len(reuse) : reuse[i] <= 0 /\ fresh(i) = k
        created == [k \in 1..fresh(Len(reuse)) |-> updatedTodos[at(k)]]
        todoOf ==
            [k \in 1..fresh(Len(reuse)) |->
                IF reuse[at(k)] = 0 THEN idCounter ELSE origin[0 - reuse[at(k)]]]
        refs ==
            [i \in 1..Len(reuse) |->
                IF reuse[i] <= 0 THEN Len(objects) + fresh(i) ELSE reuse[i]]
    IN /\ objects' = objects \o created
       /\ origin' = origin \o todoOf
       /\ arrays' = Append(arrays, refs)
       /\ stateRef' = Len(arrays) + 1
       /\ todos' = updatedTodos
       /\ Notify(updatedTodos)

\* set(state => state): Object.is(nextState, state), nothing is replaced and
\* no listener is called
setSameState == UNCHANGED storeVars

\* an exception leaves the operation before anything was stored or logged
Throw(e) ==
    /\ thrown' = e
    /\ UNCHANGED storeVars
    /\ UNCHANGED logVars

\* ------------------------------------------------------ store operations
\* mutant of NewTodo: the text is stored as it was typed
NewTodoRawText(text) ==
    [id |-> ToString(now + idCounter),
     text |-> text,
     completed |-> FALSE,
     createdAt |-> now]

NewTodo(text) ==
    [id |-> ToString(now + idCounter),
     text |-> Trim(text),
     completed |-> FALSE,
     createdAt |-> now]

\* mutant of addTodo: the new todo is put first ([newTodo, ...state.todos])
addTodoPrepends(text) ==
    IF Trim(text) # <<>>
    THEN LET newTodo == NewTodo(text) IN
         /\ idCounter' = idCounter + 1
         /\ issued' = Append(issued, newTodo.id)
         /\ info("Todo added", [id |-> newTodo.id, text |-> newTodo.text])
         /\ set(<<newTodo>> \o todos, <<0>> \o StateRefs)
         /\ thrown' = "none"
    ELSE /\ UNCHANGED <<idCounter, issued>>
         /\ UNCHANGED storeVars
         /\ UNCHANGED logVars
         /\ thrown' = "none"

\* mutant of addTodo: the todo is pushed onto state.todos without set()
addTodoPushes(text) ==
    IF Trim(text) # <<>>
    THEN LET newTodo == NewTodo(text) IN
         /\ idCounter' = idCounter + 1
         /\ issued' = Append(issued, newTodo.id)
         /\ info("Todo added", [id |-> newTodo.id, text |-> newTodo.text])
         /\ objects' = Append(objects, newTodo)
         /\ origin' = Append(origin, idCounter)
         /\ arrays' = [arrays EXCEPT ![stateRef] = Append(@, Len(objects) + 1)]
         /\ todos' = Append(todos, newTodo)
         /\ UNCHANGED <<stateRef, delivered>>
         /\ thrown' = "none"
    ELSE /\ UNCHANGED <<idCounter, issued>>
         /\ UNCHANGED storeVars
         /\ UNCHANGED logVars
         /\ thrown' = "none"

\* mutant of addTodo: the text.trim() guard is missing
addTodoUnguarded(text) ==
    LET newTodo == NewTodo(text) IN
    /\ idCounter' = idCounter + 1
    /\ issued' = Append(issued, newTodo.id)
    /\ info("Todo added", [id |-> newTodo.id, text |-> newTodo.text])
    /\ set(Append(todos, newTodo), Append(StateRefs, 0))
    /\ thrown' = "none"

\* mutant of addTodo: the log call is wrapped in try/catch and the error
\* swallowed
addTodoCatches(text) ==
    IF Trim(text) # <<>>
    THEN LET newTodo == NewTodo(text) IN
         /\ idCounter' = idCounter + 1
         /\ issued' = Append(issued, newTodo.id)
         /\ IF Raises("info")
            THEN /\ UNCHANGED logVars
                 /\ set(Append(todos, newTodo), Append(StateRefs, 0))
                 /\ thrown' = "none"
            ELSE /\ info("Todo added", [id |-> newTodo.id, text |-> newTodo.text])
                 /\ set(Append(todos, newTodo), Append(StateRefs, 0))
                 /\ thrown' = "none"
    ELSE /\ UNCHANGED <<idCounter, issued>>
         /\ UNCHANGED storeVars
         /\ UNCHANGED logVars
         /\ thrown' = "none"

\* the log call stands before set(): when it throws, set() is never called
addTodo(text) ==
    IF Trim(text) # <<>>
    THEN LET newTodo == NewTodo(text) IN
         /\ idCounter' = idCounter + 1
         /\ issued' = Append(issued, newTodo.id)
         /\ IF Raises("info")
            THEN Throw("Error")
            ELSE /\ info("Todo added", [id |-> newTodo.id, text |-> newTodo.text])
                 /\ set(Append(todos, newTodo), Append(StateRefs, 0))
                 /\ thrown' = "none"
    ELSE /\ UNCHANGED <<idCounter, issued>>
         /\ UNCHANGED storeVars
         /\ UNCHANGED logVars
         /\ thrown' = "none"

\* mutant of toggleTodo: map() flips the flag on the object it was given
\* (todo.completed = !todo.completed; return todo) instead of on a copy
toggleTodoInPlace(id) ==
    LET todoIndex == FindIndex(todos, id) IN
    /\ IF todoIndex # 0
       THEN LET updatedTodos == MapToggle(todos, id) IN
            /\ info("Todo toggled",
                    [id |-> id, completed |-> updatedTodos[todoIndex].completed])
            /\ objects' = [r \in 1..Len(objects) |->
                             IF objects[r].id = id /\ \E k \in 1..Len(StateRefs) : StateRefs[k] = r
                             THEN [objects[r] EXCEPT !.completed = ~objects[r].completed]
                             ELSE objects[r]]
            /\ origin' = origin
            /\ arrays' = Append(arrays, StateRefs)
            /\ stateRef' = Len(arrays) + 1
            /\ todos' = updatedTodos
            /\ Notify(updatedTodos)
       ELSE /\ warn("Todo not found for toggle", [id |-> id])
            /\ setSameState
    /\ thrown' = "none"
    /\ UNCHANGED <<idCounter, issued>>

\* mutant of toggleTodo: the not-found branch returns { todos: state.todos }
\* instead of state
toggleTodoReturnsPartial(id) ==
    LET todoIndex == FindIndex(todos, id) IN
    /\ IF todoIndex # 0
       THEN LET updatedTodos == MapToggle(todos, id) IN
            /\ info("Todo toggled",
                    [id |-> id, completed |-> updatedTodos[todoIndex].completed])
            /\ set(updatedTodos, MapRefs(id))
       ELSE /\ warn("Todo not found for toggle", [id |-> id])
            /\ Notify(todos)
            /\ UNCHANGED <<todos, objects, origin, arrays, stateRef>>
    /\ thrown' = "none"
    /\ UNCHANGED <<idCounter, issued>>

\* mutant of toggleTodo: no test of todoIndex against -1, so a missing id
\* reads updatedTodos[-1].completed
toggleTodoNoGuard(id) ==
    LET todoIndex == FindIndex(todos, id)
        updatedTodos == MapToggle(todos, id)
    IN /\ IF todoIndex \notin DOMAIN updatedTodos
          THEN Throw("TypeError")
          ELSE /\ info("Todo toggled",
                       [id |-> id,
                        completed |-> updatedTodos[todoIndex].completed])
               /\ set(updatedTodos, MapRefs(id))
               /\ thrown' = "none"
       /\ UNCHANGED <<idCounter, issued>>

\* mutant of toggleTodo: the log carries the flag as it was before the flip
toggleTodoLogsOld(id) ==
    LET todoIndex == FindIndex(todos, id) IN
    /\ IF todoIndex # 0
       THEN /\ info("Todo toggled",
                    [id |-> id, completed |-> todos[todoIndex].completed])
            /\ set(MapToggle(todos, id), MapRefs(id))
       ELSE /\ warn("Todo not found for toggle", [id |-> id])
            /\ setSameState
    /\ thrown' = "none"
    /\ UNCHANGED <<idCounter, issued>>

\* updatedTodos[todoIndex] is undefined when todoIndex is no index of the
\* array, and reading .completed of undefined throws a TypeError; the log
\* calls stand inside the updater, and an updater that throws leaves
\* setState before the state is replaced and the listeners are called
toggleTodo(id) ==
    LET todoIndex == FindIndex(todos, id) IN
    /\ IF todoIndex # 0
       THEN LET updatedTodos == MapToggle(todos, id) IN
            IF todoIndex \notin DOMAIN updatedTodos
            THEN Throw("TypeError")
            ELSE LET updatedTodo == updatedTodos[todoIndex] IN
                 IF Raises("info")
                 THEN Throw("Error")
                 ELSE /\ info("Todo toggled",
                              [id |-> id, completed |-> updatedTodo.completed])
                      /\ set(updatedTodos, MapRefs(id))
                      /\ thrown' = "none"
       ELSE IF Raises("warn")
            THEN Throw("Error")
            ELSE /\ warn("Todo not found for toggle", [id |-> id])
                 /\ setSameState
                 /\ thrown' = "none"
    /\ UNCHANGED <<idCounter, issued>>

\* mutant of removeTodo: the length test is <= instead of <
removeTodoLenientTest(id) ==
    LET initialLength == Len(todos)
        updatedTodos == FilterOut(todos, id)
    IN /\ IF Len(updatedTodos) <= initialLength
          THEN info("Todo removed", [id |-> id])
          ELSE warn("Todo not found for removal", [id |-> id])
       /\ set(updatedTodos, FilterRefs(id))
       /\ thrown' = "none"
       /\ UNCHANGED <<idCounter, issued>>

\* mutant of removeTodo: the filtered array is logged about but not stored
removeTodoKeepsState(id) ==
    LET initialLength == Len(todos)
        updatedTodos == FilterOut(todos, id)
    IN /\ IF Len(updatedTodos) < initialLength
          THEN info("Todo removed", [id |-> id])
          ELSE warn("Todo not found for removal", [id |-> id])
       /\ setSameState
       /\ thrown' = "none"
       /\ UNCHANGED <<idCounter, issued>>

\* mutant of removeTodo: the updater's result is stored first and the log
\* call made after set() returned
removeTodoLogsAfterSet(id) ==
    LET initialLength == Len(todos)
        updatedTodos == FilterOut(todos, id)
        level == IF Len(updatedTodos) < initialLength THEN "info" ELSE "warn"
    IN /\ set(updatedTodos, FilterRefs(id))
       /\ IF Raises(level)
          THEN /\ thrown' = "Error"
               /\ UNCHANGED logVars
          ELSE /\ IF level = "info"
                  THEN info("Todo removed", [id |-> id])
                  ELSE warn("Todo not found for removal", [id |-> id])
               /\ thrown' = "none"
       /\ UNCHANGED <<idCounter, issued>>

removeTodo(id) ==
    LET initialLength == Len(todos)
        updatedTodos == FilterOut(todos, id)
    IN /\ IF Len(updatedTodos) < initialLength
          THEN IF Raises("info")
               THEN Throw("Error")
               ELSE /\ info("Todo removed", [id |-> id])
                    /\ set(updatedTodos, FilterRefs(id))
                    /\ thrown' = "none"
          ELSE IF Raises("warn")
               THEN Throw("Error")
               ELSE /\ warn("Todo not found for removal", [id |-> id])
                    /\ set(updatedTodos, FilterRefs(id))
                    /\ thrown' = "none"
       /\ UNCHANGED <<idCounter, issued>>

\* mutant of loadTodos: a no-op that does not log either
loadTodosSilent ==
    /\ UNCHANGED logVars
    /\ UNCHANGED storeVars
    /\ thrown' = "none"
    /\ UNCHANGED <<idCounter, issued>>

\* mutant of loadTodos: it stores a copy of the todos it "loaded"
loadTodosRepublishes ==
    /\ info("Todos loaded", [count |-> 0])
    /\ set(todos, StateRefs)
    /\ thrown' = "none"
    /\ UNCHANGED <<idCounter, issued>>

loadTodos ==
    /\ IF Raises("info")
       THEN Throw("Error")
       ELSE /\ info("Todos loaded", [count |-> 0])
            /\ UNCHANGED storeVars
            /\ thrown' = "none"
    /\ UNCHANGED <<idCounter, issued>>

\* store.subscribe(listener): listeners.add(listener)
subscribe(o) == listeners' = listeners \cup {o}

\* the function subscribe returned: listeners.delete(listener)
unsubscribe(o) == listeners' = listeners \ {o}

\* ------------------------------------------------------------ the caller
\* what an operation finds when it is called
Snapshot ==
    [todos |-> todos, infoLogs |-> infoLogs, warnLogs |-> warnLogs,
     errorLogs |-> errorLogs, ref |-> stateRef, listeners |-> listeners,
     delivered |-> delivered]

Record(op, arg) ==
    calls' = Append(calls, [op |-> op, arg |-> arg, pre |-> Snapshot])

\* ids a caller can name: those the store has handed out, and a foreign one
IdArgs == {issued[i] : i \in 1..Len(issued)} \cup {MissingId}

CallAddTodo ==
    /\ Len(calls) < MaxCalls
    /\ \E text \in Texts : addTodo(text) /\ Record("addTodo", text)
    /\ UNCHANGED <<now, listeners, unsubs>>
    /\ UNCHANGED extVars

CallToggleTodo ==
    /\ Len(calls) < MaxCalls
    /\ \E id \in IdArgs : toggleTodo(id) /\ Record("toggleTodo", id)
    /\ UNCHANGED <<now, listeners, unsubs>>
    /\ UNCHANGED extVars

CallRemoveTodo ==
    /\ Len(calls) < MaxCalls
    /\ \E id \in IdArgs : removeTodo(id) /\ Record("removeTodo", id)
    /\ UNCHANGED <<now, listeners, unsubs>>
    /\ UNCHANGED extVars

CallLoadTodos ==
    /\ Len(calls) < MaxCalls
    /\ loadTodos /\ Record("loadTodos", <<>>)
    /\ UNCHANGED <<now, listeners, unsubs>>
    /\ UNCHANGED extVars

\* the system clock moves between two operations; Date.now() is wall-clock
\* time, which is not monotonic (the clock can be set back)
ClockChange ==
    /\ now' \in Times \ {now}
    /\ UNCHANGED <<todos, idCounter, infoLogs, warnLogs, errorLogs, issued,
                   calls, objects, origin, arrays, stateRef, listeners,
                   delivered, unsubs, thrown>>
    /\ UNCHANGED extVars

Next ==
    \/ CallAddTodo
    \/ CallToggleTodo
    \/ CallRemoveTodo
    \/ CallLoadTodos
    \/ ClockChange

Spec == Init /\ [][Next]_vars

\* ---------------------------------------------------------- the observers
\* an observer registers a callback (a new closure, registered once)
Subscribe ==
    \E o \in Observers :
        /\ o \notin listeners
        /\ unsubs[o] = 0
        /\ subscribe(o)
        /\ UNCHANGED <<todos, idCounter, now, infoLogs, warnLogs, errorLogs,
                       issued, calls, objects, origin, arrays, stateRef,
                       delivered, unsubs, thrown>>
        /\ UNCHANGED extVars

\* mutant of Unsubscribe: the teardown runs without calling the function
\* subscribe returned
UnsubscribeForgets ==
    \E o \in Observers :
        /\ o \in listeners \/ unsubs[o] > 0
        /\ unsubs[o] < 2
        /\ unsubs' = [unsubs EXCEPT ![o] = @ + 1]
        /\ UNCHANGED <<todos, idCounter, now, infoLogs, warnLogs, errorLogs,
                       issued, calls, objects, origin, arrays, stateRef,
                       listeners, delivered, thrown>>
        /\ UNCHANGED extVars

\* an observer calls the unsubscribe function it was given, a first or a
\* second time
Unsubscribe ==
    \E o \in Observers :
        /\ o \in listeners \/ unsubs[o] > 0
        /\ unsubs[o] < 2
        /\ unsubscribe(o)
        /\ unsubs' = [unsubs EXCEPT ![o] = @ + 1]
        /\ UNCHANGED <<todos, idCounter, now, infoLogs, warnLogs, errorLogs,
                       issued, calls, objects, origin, arrays, stateRef,
                       delivered, thrown>>
        /\ UNCHANGED extVars

\* the texts the observed store is given: ' ' (rejected) and 'a'
ObservedTexts == { <<" ">>, <<"a">> }

ObservedAddTodo ==
    /\ Len(calls) < MaxCalls
    /\ \E text \in ObservedTexts : addTodo(text) /\ Record("addTodo", text)
    /\ UNCHANGED <<now, listeners, unsubs>>
    /\ UNCHANGED extVars

InitObserved == Init /\ now = ClockBase

NextObserved ==
    \/ ObservedAddTodo
    \/ CallToggleTodo
    \/ CallRemoveTodo
    \/ CallLoadTodos
    \/ Subscribe
    \/ Unsubscribe

\* the store with observers coming and going, the clock standing still
SpecObserved == InitObserved /\ [][NextObserved]_vars

\* ------------------------------------------------------ a failing logger
\* the logging service starts or stops throwing at one level between two
\* operations (a sink that goes away and comes back)
LoggerChange ==
    /\ \E level \in Levels :
          raising' = IF level \in raising
                     THEN raising \ {level}
                     ELSE raising \cup {level}
    /\ UNCHANGED <<todos, idCounter, now, infoLogs, warnLogs, errorLogs,
                   issued, calls, objects, origin, arrays, stateRef, listeners,
                   delivered, unsubs, thrown, pc>>
    /\ UNCHANGED <<fleetVars, component>>

\* one observer registers its callback with the store under the failing
\* logger
FaultySubscribe ==
    /\ "o1" \notin listeners
    /\ subscribe("o1")
    /\ UNCHANGED <<todos, idCounter, now, infoLogs, warnLogs, errorLogs,
                   issued, calls, objects, origin, arrays, stateRef,
                   delivered, unsubs, thrown>>
    /\ UNCHANGED extVars

NextFaulty ==
    \/ ObservedAddTodo
    \/ CallToggleTodo
    \/ CallRemoveTodo
    \/ CallLoadTodos
    \/ LoggerChange
    \/ FaultySubscribe

\* the store with a logging service that throws from time to time
SpecFaulty == InitObserved /\ [][NextFaulty]_vars

\* ------------------------------------------- the operations step by step
\* The same operations, one statement group at a time: the part of the
\* operation up to and including its log call, then the part of setState
\* that replaces the state and calls the listeners. JavaScript runs one
\* operation to its end before the next call or subscription starts.
Idle == [at |-> "idle", local |-> <<>>]

\* mutant of AddTodoLog: set() is called where the log call stands
AddTodoPublishesUnlogged ==
    /\ pc = Idle
    /\ Len(calls) < MaxCalls
    /\ \E text \in ObservedTexts :
          /\ Record("addTodo", text)
          /\ IF Trim(text) # <<>>
             THEN LET newTodo == NewTodo(text) IN
                  /\ idCounter' = idCounter + 1
                  /\ issued' = Append(issued, newTodo.id)
                  /\ set(Append(todos, newTodo), Append(StateRefs, 0))
                  /\ UNCHANGED logVars
                  /\ thrown' = "none"
                  /\ pc' = [at |-> "addTodo:set", local |-> newTodo]
             ELSE /\ UNCHANGED <<idCounter, issued, pc>>
                  /\ UNCHANGED storeVars
                  /\ UNCHANGED logVars
                  /\ thrown' = "none"
    /\ UNCHANGED <<now, listeners, unsubs, raising>>
    /\ UNCHANGED <<fleetVars, component>>

\* addTodo up to the log call: the guard, the new todo, loggingService.info
AddTodoLog ==
    /\ pc = Idle
    /\ Len(calls) < MaxCalls
    /\ \E text \in ObservedTexts :
          /\ Record("addTodo", text)
          /\ IF Trim(text) # <<>>
             THEN LET newTodo == NewTodo(text) IN
                  /\ idCounter' = idCounter + 1
                  /\ issued' = Append(issued, newTodo.id)
                  /\ IF Raises("info")
                     THEN Throw("Error") /\ UNCHANGED pc
                     ELSE /\ info("Todo added",
                                  [id |-> newTodo.id, text |-> newTodo.text])
                          /\ UNCHANGED storeVars
                          /\ thrown' = "none"
                          /\ pc' = [at |-> "addTodo:set", local |-> newTodo]
             ELSE /\ UNCHANGED <<idCounter, issued, pc>>
                  /\ UNCHANGED storeVars
                  /\ UNCHANGED logVars
                  /\ thrown' = "none"
    /\ UNCHANGED <<now, listeners, unsubs, raising>>
    /\ UNCHANGED <<fleetVars, component>>

\* addTodo from set() to its return
AddTodoSet ==
    /\ pc.at = "addTodo:set"
    /\ set(Append(todos, pc.local), Append(StateRefs, 0))
    /\ pc' = Idle
    /\ UNCHANGED logVars
    /\ UNCHANGED <<idCounter, issued, calls, now, listeners, unsubs, thrown,
                   raising>>
    /\ UNCHANGED <<fleetVars, component>>

\* toggleTodo's updater: findIndex, map, the log call, the value returned
ToggleTodoUpdater ==
    /\ pc = Idle
    /\ Len(calls) < MaxCalls
    /\ \E id \in IdArgs :
          LET todoIndex == FindIndex(todos, id) IN
          /\ Record("toggleTodo", id)
          /\ IF todoIndex # 0
             THEN LET updatedTodos == MapToggle(todos, id) IN
                  IF Raises("info")
                  THEN Throw("Error") /\ UNCHANGED pc
                  ELSE /\ info("Todo toggled",
                               [id |-> id,
                                completed |-> updatedTodos[todoIndex].completed])
                       /\ UNCHANGED storeVars
                       /\ thrown' = "none"
                       /\ pc' = [at |-> "toggleTodo:publish", local |-> id]
             ELSE IF Raises("warn")
                  THEN Throw("Error") /\ UNCHANGED pc
                  ELSE /\ warn("Todo not found for toggle", [id |-> id])
                       /\ setSameState
                       /\ thrown' = "none"
                       /\ UNCHANGED pc
    /\ UNCHANGED <<idCounter, issued, now, listeners, unsubs, raising>>
    /\ UNCHANGED <<fleetVars, component>>

\* setState after toggleTodo's updater returned { todos: updatedTodos }
ToggleTodoPublish ==
    /\ pc.at = "toggleTodo:publish"
    /\ set(MapToggle(todos, pc.local), MapRefs(pc.local))
    /\ pc' = Idle
    /\ UNCHANGED logVars
    /\ UNCHANGED <<idCounter, issued, calls, now, listeners, unsubs, thrown,
                   raising>>
    /\ UNCHANGED <<fleetVars, component>>

\* removeTodo's updater: filter, the length test, the log call
RemoveTodoUpdater ==
    /\ pc = Idle
    /\ Len(calls) < MaxCalls
    /\ \E id \in IdArgs :
          LET level == IF Len(FilterOut(todos, id)) < Len(todos)
                       THEN "info" ELSE "warn"
          IN /\ Record("removeTodo", id)
             /\ IF Raises(level)
                THEN Throw("Error") /\ UNCHANGED pc
                ELSE /\ IF level = "info"
                        THEN info("Todo removed", [id |-> id])
                        ELSE warn("Todo not found for removal", [id |-> id])
                     /\ UNCHANGED storeVars
                     /\ thrown' = "none"
                     /\ pc' = [at |-> "removeTodo:publish", local |-> id]
    /\ UNCHANGED <<idCounter, issued, now, listeners, unsubs, raising>>
    /\ UNCHANGED <<fleetVars, component>>

\* setState after removeTodo's updater returned { todos: updatedTodos }
RemoveTodoPublish ==
    /\ pc.at = "removeTodo:publish"
    /\ set(FilterOut(todos, pc.local), FilterRefs(pc.local))
    /\ pc' = Idle
    /\ UNCHANGED logVars
    /\ UNCHANGED <<idCounter, issued, calls, now, listeners, unsubs, thrown,
                   raising>>
    /\ UNCHANGED <<fleetVars, component>>

\* loadTodos is its log call
LoadTodosLog ==
    /\ pc = Idle
    /\ CallLoadTodos

\* an observer registers its callback between two operations
IdleSubscribe ==
    /\ pc = Idle
    /\ FaultySubscribe

NextSteps ==
    \/ AddTodoLog
    \/ AddTodoSet
    \/ ToggleTodoUpdater
    \/ ToggleTodoPublish
    \/ RemoveTodoUpdater
    \/ RemoveTodoPublish
    \/ LoadTodosLog
    \/ IdleSubscribe

SpecSteps == InitObserved /\ [][NextSteps]_vars

\* --------------------------------------------------- stores side by side
\* Stores made by the three implementations, each with the logging service
\* it was created with. A store is named; its state is what its closure
\* holds. The stores run one script of operations, each at its own pace.
DecoratedIdCounterInit == 1 \* let idCounter = 1 (DecoratedTodoStoreFactory)
ManualIdCounterInit == 1    \* let idCounter = 1 (createTodoStoreWithManualDI)

\* new MockLoggingService()
MockLoggingService == [infoLogs |-> <<>>, warnLogs |-> <<>>, errorLogs |-> <<>>]

LogInfo(l, message, data) ==
    loggers' = [loggers EXCEPT
                  ![l].infoLogs = Append(@, [message |-> message, data |-> data])]

LogWarn(l, message, data) ==
    loggers' = [loggers EXCEPT
                  ![l].warnLogs = Append(@, [message |-> message, data |-> data])]

\* mutant of createTodoStore: the store logs to a module-wide logging
\* service instead of the one it was given
createTodoStoreDefaultLogger(loggingService) ==
    [impl |-> "TodoStoreFactory",
     todos |-> <<>>,
     idCounter |-> IdCounterInit,
     loggingService |-> "l1"]

\* createTodoStore(loggingService): new TodoStoreFactory(loggingService)
createTodoStore(loggingService) ==
    [impl |-> "TodoStoreFactory",
     todos |-> <<>>,
     idCounter |-> IdCounterInit,
     loggingService |-> loggingService]

\* new DecoratedTodoStoreFactory(loggingService).getStore()
DecoratedTodoStoreFactory(loggingService) ==
    [impl |-> "DecoratedTodoStoreFactory",
     todos |-> <<>>,
     idCounter |-> DecoratedIdCounterInit,
     loggingService |-> loggingService]

createTodoStoreWithManualDI(loggingService) ==
    [impl |-> "createTodoStoreWithManualDI",
     todos |-> <<>>,
     idCounter |-> ManualIdCounterInit,
     loggingService |-> loggingService]

\* TodoStoreFactory: addTodo
TodoStoreFactory_addTodo(s, text, t) ==
    IF Trim(text) # <<>>
    THEN LET newTodo == [id |-> ToString(t + stores[s].idCounter),
                         text |-> Trim(text),
                         completed |-> FALSE,
                         createdAt |-> t]
         IN /\ LogInfo(stores[s].loggingService, "Todo added",
                       [id |-> newTodo.id, text |-> newTodo.text])
            /\ stores' = [stores EXCEPT ![s].idCounter = @ + 1,
                                        ![s].todos = Append(@, newTodo)]
    ELSE UNCHANGED <<stores, loggers>>

\* TodoStoreFactory: toggleTodo
TodoStoreFactory_toggleTodo(s, id) ==
    LET todoIndex == FindIndex(stores[s].todos, id) IN
    IF todoIndex # 0
    THEN LET updatedTodos == MapToggle(stores[s].todos, id)
             updatedTodo == updatedTodos[todoIndex]
         IN /\ LogInfo(stores[s].loggingService, "Todo toggled",
                       [id |-> id, completed |-> updatedTodo.completed])
            /\ stores' = [stores EXCEPT ![s].todos = updatedTodos]
    ELSE /\ LogWarn(stores[s].loggingService, "Todo not found for toggle",
                    [id |-> id])
         /\ UNCHANGED stores

\* TodoStoreFactory: removeTodo
TodoStoreFactory_removeTodo(s, id) ==
    LET initialLength == Len(stores[s].todos)
        updatedTodos == FilterOut(stores[s].todos, id)
    IN /\ IF Len(updatedTodos) < initialLength
          THEN LogInfo(stores[s].loggingService, "Todo removed", [id |-> id])
          ELSE LogWarn(stores[s].loggingService, "Todo not found for removal",
                       [id |-> id])
       /\ stores' = [stores EXCEPT ![s].todos = updatedTodos]

\* TodoStoreFactory: loadTodos
TodoStoreFactory_loadTodos(s) ==
    /\ LogInfo(stores[s].loggingService, "Todos loaded", [count |-> 0])
    /\ UNCHANGED stores

\* DecoratedTodoStoreFactory: addTodo
DecoratedTodoStoreFactory_addTodo(s, text, t) ==
    IF Trim(text) # <<>>
    THEN LET newTodo == [id |-> ToString(t + stores[s].idCounter),
                         text |-> Trim(text),
                         completed |-> FALSE,
                         createdAt |-> t]
         IN /\ LogInfo(stores[s].loggingService, "Todo added via decorator injection",
                       [id |-> newTodo.id, text |-> newTodo.text])
            /\ stores' = [stores EXCEPT ![s].idCounter = @ + 1,
                                        ![s].todos = Append(@, newTodo)]
    ELSE UNCHANGED <<stores, loggers>>

\* DecoratedTodoStoreFactory: toggleTodo
DecoratedTodoStoreFactory_toggleTodo(s, id) ==
    LET todoIndex == FindIndex(stores[s].todos, id) IN
    IF todoIndex # 0
    THEN LET updatedTodos == MapToggle(stores[s].todos, id)
             updatedTodo == updatedTodos[todoIndex]
         IN /\ LogInfo(stores[s].loggingService, "Todo toggled via decorator injection",
                       [id |-> id, completed |-> updatedTodo.completed])
            /\ stores' = [stores EXCEPT ![s].todos = updatedTodos]
    ELSE /\ LogWarn(stores[s].loggingService, "Todo not found for toggle",
                    [id |-> id])
         /\ UNCHANGED stores

\* DecoratedTodoStoreFactory: removeTodo
DecoratedTodoStoreFactory_removeTodo(s, id) ==
    LET initialLength == Len(stores[s].todos)
        updatedTodos == FilterOut(stores[s].todos, id)
    IN /\ IF Len(updatedTodos) < initialLength
          THEN LogInfo(stores[s].loggingService, "Todo removed via decorator injection", [id |-> id])
          ELSE LogWarn(stores[s].loggingService, "Todo not found for removal",
                       [id |-> id])
       /\ stores' = [stores EXCEPT ![s].todos = updatedTodos]

\* DecoratedTodoStoreFactory: loadTodos
DecoratedTodoStoreFactory_loadTodos(s) ==
    /\ LogInfo(stores[s].loggingService, "Todos loaded via decorator injection", [count |-> 0])
    /\ UNCHANGED stores

\* mutant of createTodoStoreWithManualDI_removeTodo: the filter keeps the
\* todo with the id and drops the others (todo.id === id)
createTodoStoreWithManualDI_removeTodoInverted(s, id) ==
    LET initialLength == Len(stores[s].todos)
        updatedTodos == SelectSeq(stores[s].todos, LAMBDA t : ~KeepOther(t, id))
    IN /\ IF Len(updatedTodos) < initialLength
          THEN LogInfo(stores[s].loggingService,
                       "Todo removed via manual injection", [id |-> id])
          ELSE LogWarn(stores[s].loggingService, "Todo not found for removal",
                       [id |-> id])
       /\ stores' = [stores EXCEPT ![s].todos = updatedTodos]

\* createTodoStoreWithManualDI: addTodo
createTodoStoreWithManualDI_addTodo(s, text, t) ==
    IF Trim(text) # <<>>
    THEN LET newTodo == [id |-> ToString(t + stores[s].idCounter),
                         text |-> Trim(text),
                         completed |-> FALSE,
                         createdAt |-> t]
         IN /\ LogInfo(stores[s].loggingService, "Todo added via manual injection",
                       [id |-> newTodo.id, text |-> newTodo.text])
            /\ stores' = [stores EXCEPT ![s].idCounter = @ + 1,
                                        ![s].todos = Append(@, newTodo)]
    ELSE UNCHANGED <<stores, loggers>>

\* createTodoStoreWithManualDI: toggleTodo
createTodoStoreWithManualDI_toggleTodo(s, id) ==
    LET todoIndex == FindIndex(stores[s].todos, id) IN
    IF todoIndex # 0
    THEN LET updatedTodos == MapToggle(stores[s].todos, id)
             updatedTodo == updatedTodos[todoIndex]
         IN /\ LogInfo(stores[s].loggingService, "Todo toggled via manual injection",
                       [id |-> id, completed |-> updatedTodo.completed])
            /\ stores' = [stores EXCEPT ![s].todos = updatedTodos]
    ELSE /\ LogWarn(stores[s].loggingService, "Todo not found for toggle",
                    [id |-> id])
         /\ UNCHANGED stores

\* createTodoStoreWithManualDI: removeTodo
createTodoStoreWithManualDI_removeTodo(s, id) ==
    LET initialLength == Len(stores[s].todos)
        updatedTodos == FilterOut(stores[s].todos, id)
    IN /\ IF Len(updatedTodos) < initialLength
          THEN LogInfo(stores[s].loggingService, "Todo removed via manual injection", [id |-> id])
          ELSE LogWarn(stores[s].loggingService, "Todo not found for removal",
                       [id |-> id])
       /\ stores' = [stores EXCEPT ![s].todos = updatedTodos]

\* createTodoStoreWithManualDI: loadTodos
createTodoStoreWithManualDI_loadTodos(s) ==
    /\ LogInfo(stores[s].loggingService, "Todos loaded via manual injection", [count |-> 0])
    /\ UNCHANGED stores

\* the store named s runs the script entry e
Perform(s, e) ==
    LET impl == stores[s].impl IN
    IF impl = "TodoStoreFactory"
    THEN IF e.op = "addTodo" THEN TodoStoreFactory_addTodo(s, e.arg, e.now)
         ELSE IF e.op = "toggleTodo" THEN TodoStoreFactory_toggleTodo(s, e.arg)
         ELSE IF e.op = "removeTodo" THEN TodoStoreFactory_removeTodo(s, e.arg)
         ELSE TodoStoreFactory_loadTodos(s)
    ELSE IF impl = "DecoratedTodoStoreFactory"
    THEN IF e.op = "addTodo"
         THEN DecoratedTodoStoreFactory_addTodo(s, e.arg, e.now)
         ELSE IF e.op = "toggleTodo"
         THEN DecoratedTodoStoreFactory_toggleTodo(s, e.arg)
         ELSE IF e.op = "removeTodo"
         THEN DecoratedTodoStoreFactory_removeTodo(s, e.arg)
         ELSE DecoratedTodoStoreFactory_loadTodos(s)
    ELSE IF e.op = "addTodo"
         THEN createTodoStoreWithManualDI_addTodo(s, e.arg, e.now)
         ELSE IF e.op = "toggleTodo"
         THEN createTodoStoreWithManualDI_toggleTodo(s, e.arg)
         ELSE IF e.op = "removeTodo"
         THEN createTodoStoreWithManualDI_removeTodo(s, e.arg)
         ELSE createTodoStoreWithManualDI_loadTodos(s)

\* the operations a caller of store s can make now
Entries(s) ==
    LET ids == {stores[s].todos[i].id : i \in 1..Len(stores[s].todos)}
                  \cup {MissingId}
    IN {[op |-> "addTodo", arg |-> text, now |-> now] : text \in ObservedTexts}
       \cup {[op |-> op, arg |-> id, now |-> now] :
                op \in {"toggleTodo", "removeTodo"}, id \in ids}
       \cup {[op |-> "loadTodos", arg |-> <<>>, now |-> now]}

\* the single store of the other specifications, its logger and its callers
singleVars == <<todos, idCounter, now, infoLogs, warnLogs, errorLogs, issued,
                calls, objects, origin, arrays, stateRef, listeners, delivered,
                unsubs, thrown, raising, pc, component>>

\* a store that has run the whole script is given a further operation
DriveNext ==
    /\ Len(script) < MaxCalls
    /\ \E s \in DOMAIN stores :
          /\ pos[s] = Len(script)
          /\ \E e \in Entries(s) :
                /\ script' = Append(script, e)
                /\ Perform(s, e)
          /\ pos' = [pos EXCEPT ![s] = @ + 1]
    /\ UNCHANGED singleVars

\* a store that is behind runs its next operation of the script, at the
\* clock reading the script records
DriveReplay ==
    /\ \E s \in DOMAIN stores :
          /\ pos[s] < Len(script)
          /\ Perform(s, script[pos[s] + 1])
          /\ pos' = [pos EXCEPT ![s] = @ + 1]
    /\ UNCHANGED script
    /\ UNCHANGED singleVars

NextFleet ==
    \/ DriveNext
    \/ DriveReplay

\* one store of each implementation, each with a mock logger of its own
InitEquivalent ==
    /\ InitStore
    /\ NoComponent
    /\ now = ClockBase
    /\ stores = [factory |-> createTodoStore("l1"),
                 decorated |-> DecoratedTodoStoreFactory("l2"),
                 manual |-> createTodoStoreWithManualDI("l3")]
    /\ loggers = [l1 |-> MockLoggingService,
                  l2 |-> MockLoggingService,
                  l3 |-> MockLoggingService]
    /\ script = <<>>
    /\ pos = [factory |-> 0, decorated |-> 0, manual |-> 0]

\* every store has run the whole script
AllCaughtUp == \A s \in DOMAIN stores : pos[s] = Len(script)

\* the script grows when every store has run it, and the clock moves
\* between two of its operations
NextEquivalent ==
    \/ AllCaughtUp /\ DriveNext
    \/ DriveReplay
    \/ AllCaughtUp /\ ClockChange

SpecEquivalent == InitEquivalent /\ [][NextEquivalent]_vars

\* the loggers handed to the two createTodoStore calls
Given == [first |-> "l1", second |-> "l2"]

\* two stores made by two createTodoStore calls
InitIndependent ==
    /\ InitStore
    /\ NoComponent
    /\ now = ClockBase
    /\ stores = [s \in DOMAIN Given |-> createTodoStore(Given[s])]
    /\ loggers = [l1 |-> MockLoggingService, l2 |-> MockLoggingService]
    /\ script = <<>>
    /\ pos = [s \in DOMAIN Given |-> 0]

SpecIndependent == InitIndependent /\ [][NextFleet]_vars

\* ------------------------------------------------- a subscribing component
\* InjectableTodoList and InjectedTodoApp have the same constructor,
\* componentDidMount and componentWillUnmount. The container hands out one
\* instance, whose lifecycle methods its holders call. Each
\* componentDidMount passes a new closure to subscribe: Callback[k] is the
\* closure of the k-th call.
Callback == <<"o1", "o2">>

\* the closures the component has passed to subscribe so far
Closures == {Callback[k] : k \in 1..component.mounts}

\* constructor: this.state = { todos: this.todoStore.getState().todos }
Construct ==
    /\ ~component.constructed
    /\ component' = [component EXCEPT !.constructed = TRUE, !.todos = todos]
    /\ UNCHANGED <<todos, idCounter, now, infoLogs, warnLogs, errorLogs,
                   issued, calls, objects, origin, arrays, stateRef, listeners,
                   delivered, unsubs, thrown, raising, pc>>
    /\ UNCHANGED fleetVars

\* componentDidMount: this.unsubscribe = this.todoStore.subscribe(closure),
\* then this.todoStore.getState().loadTodos()
ComponentDidMount ==
    /\ component.constructed
    /\ component.mounts < Len(Callback)
    /\ Len(calls) < MaxCalls
    /\ LET closure == Callback[component.mounts + 1] IN
       /\ subscribe(closure)
       /\ component' = [component EXCEPT !.unsubscribe = closure,
                                         !.mounts = @ + 1]
    /\ loadTodos
    /\ Record("loadTodos", <<>>)
    /\ UNCHANGED <<now, unsubs, raising, pc>>
    /\ UNCHANGED fleetVars

\* componentWillUnmount: if (this.unsubscribe) { this.unsubscribe();
\* this.unsubscribe = null; }
ComponentWillUnmount ==
    /\ component.constructed
    /\ IF component.unsubscribe # "null"
       THEN /\ unsubscribe(component.unsubscribe)
            /\ unsubs' = [unsubs EXCEPT ![component.unsubscribe] = @ + 1]
            /\ component' = [component EXCEPT !.unsubscribe = "null"]
       ELSE UNCHANGED <<listeners, unsubs, component>>
    /\ UNCHANGED <<todos, idCounter, now, infoLogs, warnLogs, errorLogs,
                   issued, calls, objects, origin, arrays, stateRef, delivered,
                   thrown, raising, pc>>
    /\ UNCHANGED fleetVars

\* the closure passed to subscribe: this.setState({ todos: state.todos }),
\* run for each closure the store calls
SetState ==
    component' =
        IF \E closure \in Closures : delivered'[closure] # delivered[closure]
        THEN [component EXCEPT !.todos = todos']
        ELSE component

\* a store operation called while the component exists or not
StoreOperation ==
    /\ Len(calls) < MaxCalls
    /\ \/ \E text \in ObservedTexts : addTodo(text) /\ Record("addTodo", text)
       \/ \E id \in IdArgs : toggleTodo(id) /\ Record("toggleTodo", id)
       \/ \E id \in IdArgs : removeTodo(id) /\ Record("removeTodo", id)
       \/ loadTodos /\ Record("loadTodos", <<>>)
    /\ SetState
    /\ UNCHANGED <<now, listeners, unsubs, raising, pc>>
    /\ UNCHANGED fleetVars

NextComponent ==
    \/ Construct
    \/ ComponentDidMount
    \/ ComponentWillUnmount
    \/ StoreOperation

SpecComponent == InitObserved /\ [][NextComponent]_vars

\* ================================================================ claims
\* the call that was made last, and the one before it
LastCall == calls[Len(calls)]
PrevCall == calls[Len(calls) - 1]

IsBlank(s) == \A k \in 1..Len(s) : s[k] \in WhiteSpace

\* t is s without its leading and trailing white space
IsTrimOf(t, s) ==
    /\ t # <<>> => (t[1] \notin WhiteSpace /\ t[Len(t)] \notin WhiteSpace)
    /\ \E i \in 0..Len(s) : \E j \in i..Len(s) :
          /\ t = SubSeq(s, i + 1, j)
          /\ \A k \in 1..i : s[k] \in WhiteSpace
          /\ \A k \in (j + 1)..Len(s) : s[k] \in WhiteSpace

IdsOf(ts) == {ts[i].id : i \in 1..Len(ts)}

NoLogSince(pre) ==
    /\ infoLogs = pre.infoLogs
    /\ warnLogs = pre.warnLogs
    /\ errorLogs = pre.errorLogs

\* C1: addTodo(s) with s non-blank makes todos one longer; the new entry is
\* the last one, its text is s trimmed and it is not completed; the entries
\* that were there keep their positions.
C1_AddAppendsTrimmed ==
    (calls # <<>> /\ LastCall.op = "addTodo" /\ ~IsBlank(LastCall.arg)) =>
        LET before == LastCall.pre.todos IN
        /\ Len(todos) = Len(before) + 1
        /\ IsTrimOf(todos[Len(todos)].text, LastCall.arg)
        /\ todos[Len(todos)].completed = FALSE
        /\ \A i \in 1..Len(before) : todos[i] = before[i]

\* C1 witness: a text with white space on both sides was added to a store
\* that already held a todo.
C1_Witness ==
    /\ calls # <<>>
    /\ LastCall.op = "addTodo"
    /\ LastCall.arg = <<" ", "a", " ", "b", "\n">>
    /\ Len(LastCall.pre.todos) >= 1
    /\ Len(todos) = Len(LastCall.pre.todos) + 1

\* C2: addTodo(s) with s empty or all white space leaves todos as they were
\* and logs nothing at any level.
C2_BlankAddIsSilent ==
    (calls # <<>> /\ LastCall.op = "addTodo" /\ IsBlank(LastCall.arg)) =>
        /\ todos = LastCall.pre.todos
        /\ NoLogSince(LastCall.pre)

\* C2 witness: a white-space-only text was offered to a store that holds a
\* todo and has logged.
C2_Witness ==
    /\ calls # <<>>
    /\ LastCall.op = "addTodo"
    /\ LastCall.arg = <<"\t", "\n">>
    /\ Len(todos) >= 1
    /\ Len(infoLogs) >= 1

\* C3: no two todos created by addTodo ever share an id: the ids generated
\* over the store's lifetime are pairwise distinct (so are those in todos,
\* and no id of a removed todo comes back).
C3_IdsNeverShared ==
    /\ \A i, j \in 1..Len(issued) : issued[i] = issued[j] => i = j
    /\ \A i, j \in 1..Len(todos) : todos[i].id = todos[j].id => i = j

\* the last call named an id that a todo had when the call was made
LastCallFound(op) ==
    /\ calls # <<>>
    /\ LastCall.op = op
    /\ LastCall.arg \in IdsOf(LastCall.pre.todos)

\* the last call named an id that no todo had when the call was made
LastCallNotFound(op) ==
    /\ calls # <<>>
    /\ LastCall.op = op
    /\ LastCall.arg \notin IdsOf(LastCall.pre.todos)

Flipped(t) == [t EXCEPT !.completed = ~t.completed]

\* exactly the entries e were appended to the log that was old
Emitted(old, new, e) == new = old \o e

\* C4: toggleTodo(id) for an id present in todos flips the completed flag of
\* exactly one entry, the one with that id, and leaves every other entry
\* unchanged by value; length and order are unchanged.
C4_ToggleFlipsExactlyOne ==
    LastCallFound("toggleTodo") =>
        LET before == LastCall.pre.todos IN
        /\ Len(todos) = Len(before)
        /\ \E i \in 1..Len(before) :
              /\ before[i].id = LastCall.arg
              /\ todos[i] = Flipped(before[i])
              /\ \A j \in 1..Len(before) : j # i => todos[j] = before[j]

\* C5: two toggleTodo(id) calls in succession on an existing id give back
\* the todos the first call met.
C5_ToggleTwiceRestores ==
    (/\ Len(calls) >= 2
     /\ LastCall.op = "toggleTodo"
     /\ PrevCall.op = "toggleTodo"
     /\ LastCall.arg = PrevCall.arg
     /\ PrevCall.arg \in IdsOf(PrevCall.pre.todos)) =>
        todos = PrevCall.pre.todos

\* C5 witness: an existing todo was toggled twice in a row.
C5_Witness ==
    /\ Len(calls) >= 2
    /\ LastCall.op = "toggleTodo"
    /\ PrevCall.op = "toggleTodo"
    /\ LastCall.arg = PrevCall.arg
    /\ PrevCall.arg \in IdsOf(PrevCall.pre.todos)
    /\ LastCall.pre.todos # PrevCall.pre.todos

\* the first entry of ts whose id is id
FirstWithId(ts, id) ==
    ts[CHOOSE i \in 1..Len(ts) :
          ts[i].id = id /\ \A j \in 1..(i - 1) : ts[j].id # id]

\* C6: toggleTodo(id) for an existing id logs exactly one info entry
\* 'Todo toggled' carrying id and the completed value that the (first) entry
\* with that id has in todos when the operation returns, and no warn entry.
C6_ToggleLogsNewValue ==
    LastCallFound("toggleTodo") =>
        /\ Emitted(LastCall.pre.infoLogs, infoLogs,
                   << [message |-> "Todo toggled",
                       data |-> [id |-> LastCall.arg,
                                 completed |->
                                     FirstWithId(todos, LastCall.arg).completed]] >>)
        /\ warnLogs = LastCall.pre.warnLogs
        /\ errorLogs = LastCall.pre.errorLogs

\* C6 witness: a completed todo was toggled back, and the log says false.
C6_Witness ==
    /\ LastCallFound("toggleTodo")
    /\ FirstWithId(LastCall.pre.todos, LastCall.arg).completed = TRUE
    /\ infoLogs[Len(infoLogs)].data.completed = FALSE

\* C7: toggleTodo(id) and removeTodo(id) for an id that no todo has leave
\* the content of todos unchanged and log exactly one warn entry carrying
\* the id ('Todo not found for toggle' / 'Todo not found for removal') and
\* no info entry.
C7_NotFoundWarns ==
    /\ LastCallNotFound("toggleTodo") =>
          /\ todos = LastCall.pre.todos
          /\ Emitted(LastCall.pre.warnLogs, warnLogs,
                     << [message |-> "Todo not found for toggle",
                         data |-> [id |-> LastCall.arg]] >>)
          /\ infoLogs = LastCall.pre.infoLogs
          /\ errorLogs = LastCall.pre.errorLogs
    /\ LastCallNotFound("removeTodo") =>
          /\ todos = LastCall.pre.todos
          /\ Emitted(LastCall.pre.warnLogs, warnLogs,
                     << [message |-> "Todo not found for removal",
                         data |-> [id |-> LastCall.arg]] >>)
          /\ infoLogs = LastCall.pre.infoLogs
          /\ errorLogs = LastCall.pre.errorLogs

\* C7 witness: on a store holding a todo, toggleTodo and then removeTodo
\* were called with an id no todo has.
C7_Witness ==
    /\ Len(calls) >= 2
    /\ LastCallNotFound("removeTodo")
    /\ PrevCall.op = "toggleTodo"
    /\ PrevCall.arg \notin IdsOf(PrevCall.pre.todos)
    /\ Len(todos) >= 1
    /\ Len(warnLogs) = 2

\* C8: removeTodo(id) for an id present in todos makes todos exactly one
\* shorter, leaves no entry with that id, keeps every other entry unchanged
\* and in order, and logs exactly one info entry 'Todo removed' with the id.
C8_RemoveDropsExactlyOne ==
    LastCallFound("removeTodo") =>
        LET before == LastCall.pre.todos IN
        /\ Len(todos) = Len(before) - 1
        /\ LastCall.arg \notin IdsOf(todos)
        /\ \E i \in 1..Len(before) :
              /\ before[i].id = LastCall.arg
              /\ todos = SubSeq(before, 1, i - 1)
                            \o SubSeq(before, i + 1, Len(before))
        /\ Emitted(LastCall.pre.infoLogs, infoLogs,
                   << [message |-> "Todo removed",
                       data |-> [id |-> LastCall.arg]] >>)
        /\ warnLogs = LastCall.pre.warnLogs

\* C9: removing the same existing id twice in a row logs success once: the
\* first removeTodo(id) logs one info entry, the second logs one warn entry
\* and changes nothing in todos.
C9_SecondRemoveWarns ==
    (/\ Len(calls) >= 2
     /\ LastCall.op = "removeTodo"
     /\ PrevCall.op = "removeTodo"
     /\ LastCall.arg = PrevCall.arg
     /\ PrevCall.arg \in IdsOf(PrevCall.pre.todos)) =>
        /\ Emitted(PrevCall.pre.infoLogs, LastCall.pre.infoLogs,
                   << [message |-> "Todo removed",
                       data |-> [id |-> PrevCall.arg]] >>)
        /\ LastCall.pre.warnLogs = PrevCall.pre.warnLogs
        /\ infoLogs = LastCall.pre.infoLogs
        /\ Emitted(LastCall.pre.warnLogs, warnLogs,
                   << [message |-> "Todo not found for removal",
                       data |-> [id |-> LastCall.arg]] >>)
        /\ todos = LastCall.pre.todos

\* C9 witness: an existing todo was removed and removeTodo was called again
\* with its id.
C9_Witness ==
    /\ Len(calls) >= 2
    /\ LastCall.op = "removeTodo"
    /\ PrevCall.op = "removeTodo"
    /\ LastCall.arg = PrevCall.arg
    /\ PrevCall.arg \in IdsOf(PrevCall.pre.todos)
    /\ Len(warnLogs) = 1

\* C10: loadTodos() logs exactly one info entry 'Todos loaded' whose count
\* is the number of todos in the store.
C10_LoadLogsCount ==
    (calls # <<>> /\ LastCall.op = "loadTodos") =>
        Emitted(LastCall.pre.infoLogs, infoLogs,
                << [message |-> "Todos loaded",
                    data |-> [count |-> Len(todos)]] >>)

\* the last n calls
LastCalls(n) == SubSeq(calls, Len(calls) - n + 1, Len(calls))

\* C11: loadTodos() never changes todos and never notifies a subscriber,
\* in any state, the initial one included; n consecutive calls log exactly
\* n info entries 'Todos loaded' (and nothing else).
C11_LoadOnlyLogs ==
    \A n \in 1..Len(calls) :
        (\A k \in 1..n : LastCalls(n)[k].op = "loadTodos") =>
            LET pre == LastCalls(n)[1].pre IN
            /\ todos = pre.todos
            /\ stateRef = pre.ref
            /\ delivered = pre.delivered
            /\ Len(infoLogs) = Len(pre.infoLogs) + n
            /\ SubSeq(infoLogs, 1, Len(pre.infoLogs)) = pre.infoLogs
            /\ \A k \in (Len(pre.infoLogs) + 1)..Len(infoLogs) :
                  infoLogs[k].message = "Todos loaded"
            /\ warnLogs = pre.warnLogs
            /\ errorLogs = pre.errorLogs

\* C11 witness: loadTodos was the first operation on the store and was
\* called twice in a row while an observer was registered.
C11_Witness ==
    /\ Len(calls) = 2
    /\ calls[1].op = "loadTodos"
    /\ calls[2].op = "loadTodos"
    /\ calls[1].pre.listeners # {}
    /\ Len(infoLogs) = 2

\* C12: in every reachable state every todo's text is non-empty and has no
\* leading or trailing white space.
C12_TextsAreTrimmed ==
    \A i \in 1..Len(todos) :
        /\ todos[i].text # <<>>
        /\ todos[i].text[1] \notin WhiteSpace
        /\ todos[i].text[Len(todos[i].text)] \notin WhiteSpace

\* C12 witness: the store holds the todo made from ' a b\n', after blank
\* texts were offered too.
C12_Witness ==
    /\ \E i \in 1..Len(todos) : todos[i].text = <<"a", " ", "b">>
    /\ \E k \in 1..Len(calls) :
          calls[k].op = "addTodo" /\ calls[k].arg = <<"\t", "\n">>

\* C13: updates are copy-on-write: every todos array that was published,
\* and every entry in it, still has the value it had when it was
\* published; a toggle publishes a new array and a new object for the
\* toggled todo.
C13_CopyOnWrite ==
    /\ Deref(stateRef) = todos
    /\ \A i \in 1..Len(calls) : Deref(calls[i].pre.ref) = calls[i].pre.todos
    /\ LastCallFound("toggleTodo") =>
          /\ stateRef # LastCall.pre.ref
          /\ \A k \in 1..Len(todos) :
                todos[k].id = LastCall.arg =>
                    arrays[stateRef][k] # arrays[LastCall.pre.ref][k]

\* C13 witness: a todo was added and then toggled; the array published by
\* the add is still held by a caller and differs from the current one.
C13_Witness ==
    /\ Len(calls) >= 2
    /\ LastCallFound("toggleTodo")
    /\ PrevCall.op = "addTodo"
    /\ Deref(LastCall.pre.ref) # todos
    /\ Deref(PrevCall.pre.ref) # Deref(LastCall.pre.ref)

\* the addTodo call (numbered by its idCounter) that created the todo at
\* position i of the array ref
CreatedBy(ref, i) == origin[arrays[ref][i]]

\* C14: in every reachable state todos is in creation order: of two todos
\* present, the one created by the earlier addTodo call comes first;
\* toggleTodo and removeTodo do not reorder the entries that stay.
C14_CreationOrder ==
    /\ \A i, j \in 1..Len(todos) :
          i < j => CreatedBy(stateRef, i) < CreatedBy(stateRef, j)
    /\ (calls # <<>> /\ LastCall.op \in {"toggleTodo", "removeTodo"}) =>
          \A i \in 1..Len(todos) :
              \E k \in 1..Len(LastCall.pre.todos) :
                  CreatedBy(stateRef, i) = CreatedBy(LastCall.pre.ref, k)

\* C14 witness: two todos were added and the first one was toggled.
C14_Witness ==
    /\ LastCallFound("toggleTodo")
    /\ Len(todos) >= 2
    /\ todos[1].id = LastCall.arg
    /\ todos[2].id # LastCall.arg

\* C15: the id, text and createdAt of a todo never change between its
\* creation and its removal; completed is false at creation and changes
\* only through a toggleTodo call with the todo's id; addTodo, removeTodo
\* of another id and loadTodos change no field of an existing todo.
C15_FieldsAreStable ==
    /\ \A r1, r2 \in 1..Len(objects) :
          origin[r1] = origin[r2] =>
              /\ objects[r1].id = objects[r2].id
              /\ objects[r1].text = objects[r2].text
              /\ objects[r1].createdAt = objects[r2].createdAt
    /\ \A r \in 1..Len(objects) :
          (\A q \in 1..(r - 1) : origin[q] # origin[r]) =>
              objects[r].completed = FALSE
    /\ calls # <<>> =>
          LET before == LastCall.pre.todos IN
          /\ \A i \in 1..Len(todos) : \A k \in 1..Len(before) :
                CreatedBy(stateRef, i) = CreatedBy(LastCall.pre.ref, k) =>
                    /\ todos[i].id = before[k].id
                    /\ todos[i].text = before[k].text
                    /\ todos[i].createdAt = before[k].createdAt
                    /\ todos[i].completed # before[k].completed =>
                          /\ LastCall.op = "toggleTodo"
                          /\ LastCall.arg = before[k].id
          /\ \A k \in 1..Len(before) :
                (LastCall.op = "removeTodo" => before[k].id # LastCall.arg) =>
                    \E i \in 1..Len(todos) :
                        CreatedBy(stateRef, i) = CreatedBy(LastCall.pre.ref, k)

\* C15 witness: a todo was toggled and then another todo was added; the
\* first is still completed.
C15_Witness ==
    /\ Len(calls) >= 2
    /\ LastCall.op = "addTodo"
    /\ PrevCall.op = "toggleTodo"
    /\ Len(todos) = 2
    /\ todos[1].completed = TRUE
    /\ todos[2].completed = FALSE

\* the last call changed the todos: addTodo with a non-blank text, or
\* toggleTodo / removeTodo of an id that was there
LastCallMutated ==
    \/ (calls # <<>> /\ LastCall.op = "addTodo" /\ ~IsBlank(LastCall.arg))
    \/ LastCallFound("toggleTodo")
    \/ LastCallFound("removeTodo")

\* C16: addTodo with non-blank text, toggleTodo of an existing id and
\* removeTodo of an existing id each invoke every registered subscriber
\* exactly once, before the operation returns, with the store's new todos;
\* no operation invokes a subscriber more than once.
C16_OneBroadcastPerMutation ==
    calls # <<>> =>
        /\ LastCallMutated =>
              \A o \in LastCall.pre.listeners :
                  delivered[o] = Append(LastCall.pre.delivered[o], todos)
        /\ \A o \in Observers :
              Len(delivered[o]) <= Len(LastCall.pre.delivered[o]) + 1

\* C16 witness: with two observers registered a todo was toggled, and both
\* have been called for the add and for the toggle.
C16_Witness ==
    /\ LastCallFound("toggleTodo")
    /\ LastCall.pre.listeners = Observers
    /\ \A o \in Observers : Len(delivered[o]) = 2

\* C17: addTodo with an empty or white-space-only text and toggleTodo with
\* an id that no todo has invoke no subscriber.
C17_NoBroadcastOnRejection ==
    (\/ (calls # <<>> /\ LastCall.op = "addTodo" /\ IsBlank(LastCall.arg))
     \/ LastCallNotFound("toggleTodo")) =>
        /\ delivered = LastCall.pre.delivered
        /\ stateRef = LastCall.pre.ref

\* C17 witness: with an observer registered on a store holding a todo, a
\* blank text was offered and then a missing id was toggled.
C17_Witness ==
    /\ Len(calls) >= 2
    /\ LastCallNotFound("toggleTodo")
    /\ PrevCall.op = "addTodo"
    /\ IsBlank(PrevCall.arg)
    /\ PrevCall.pre.listeners # {}
    /\ LastCall.pre.listeners # {}
    /\ Len(todos) >= 1

\* C18: removeTodo with an id that no todo has is a no-op: the todos are
\* unchanged, no new state is published, no subscriber is invoked, and the
\* only effect is one warn-level log entry.
C18_MissingRemoveIsNoOp ==
    LastCallNotFound("removeTodo") =>
        /\ todos = LastCall.pre.todos
        /\ stateRef = LastCall.pre.ref
        /\ delivered = LastCall.pre.delivered
        /\ infoLogs = LastCall.pre.infoLogs
        /\ errorLogs = LastCall.pre.errorLogs
        /\ Len(warnLogs) = Len(LastCall.pre.warnLogs) + 1

\* C19: once an observer has unregistered, no later store operation invokes
\* its callback, while every observer still registered receives each newly
\* published state; unregistering removes that observer alone, and a second
\* call of the unregister function changes nothing and raises nothing.
C19_UnsubscribeStopsDelivery ==
    [][ /\ \A o \in Observers :
            unsubs[o] > 0 => delivered'[o] = delivered[o]
        /\ \A o \in Observers :
            (o \in listeners /\ unsubs[o] = 0 /\ stateRef' # stateRef) =>
                delivered'[o] = Append(delivered[o], todos')
        /\ \A o \in Observers :
            unsubs'[o] # unsubs[o] =>
                /\ listeners' = listeners \ {o}
                /\ delivered' = delivered
                /\ thrown' = thrown
                /\ stateRef' = stateRef
                /\ (unsubs[o] >= 1 => listeners' = listeners)
      ]_vars

\* C19 witness: o1 received a state, called its unregister function twice
\* and missed the state a later mutation published, which o2 received.
C19_Witness ==
    /\ unsubs["o1"] = 2
    /\ LastCallMutated
    /\ LastCall.pre.listeners = {"o2"}
    /\ delivered["o1"] # <<>>
    /\ delivered["o1"] = LastCall.pre.delivered["o1"]
    /\ Len(delivered["o2"]) = Len(LastCall.pre.delivered["o2"]) + 1

\* C20: with a logger that does not raise, no call of addTodo, toggleTodo,
\* removeTodo or loadTodos raises to its caller, whatever string it is given
\* and whatever state the store is in.
C20_NothingRaises == thrown = "none"

\* C20 witness: a store that was offered an empty text, then asked to toggle
\* and to remove an id it does not hold, each call returning normally.
C20_Witness ==
    /\ Len(calls) = 3
    /\ calls[1].op = "addTodo"
    /\ calls[1].arg = <<>>
    /\ calls[2].op = "toggleTodo"
    /\ FindIndex(calls[2].pre.todos, calls[2].arg) = 0
    /\ LastCallNotFound("removeTodo")
    /\ thrown = "none"

\* the level of the log call an operation makes in the state it meets, or
\* "none" when it makes none
LogLevelOf(call) ==
    IF call.op = "addTodo"
    THEN IF IsBlank(call.arg) THEN "none" ELSE "info"
    ELSE IF call.op = "loadTodos"
    THEN "info"
    ELSE IF call.arg \in IdsOf(call.pre.todos) THEN "info" ELSE "warn"

C28_FailedLogLeavesStore ==
    [][ calls' # calls =>
            LET call == calls'[Len(calls')] IN
            (call.op \in {"addTodo", "toggleTodo", "removeTodo"}
                /\ LogLevelOf(call) \in raising) =>
                    /\ todos' = todos
                    /\ stateRef' = stateRef
                    /\ delivered' = delivered
      ]_vars

\* C28 witness: with a subscriber registered, removeTodo of an id the store
\* holds threw the logger's error and the todo is still there.
C28_Witness ==
    /\ LastCallFound("removeTodo")
    /\ thrown = "Error"
    /\ LastCall.pre.listeners # {}
    /\ todos = LastCall.pre.todos
    /\ delivered = LastCall.pre.delivered

\* C22: when several entries of todos have the id passed to toggleTodo,
\* only the first of them in sequence order has its completed flag
\* flipped; every later entry with that id is left as it was.
C22_ToggleFlipsFirstMatchOnly ==
    LastCallFound("toggleTodo") =>
        LET old == LastCall.pre.todos
            first == FindIndex(old, LastCall.arg)
        IN todos = [i \in 1..Len(old) |->
                       IF i = first THEN Flipped(old[i]) ELSE old[i]]

\* the calls made so far whose log call is at the given level
CallsAt(level) == {i \in 1..Len(calls) : LogLevelOf(calls[i]) = level}

\* C23: every call other than addTodo with a blank text has emitted
\* exactly one log entry, info for a successful add, toggle or remove and
\* for loadTodos, warn for a toggle or remove that found nothing; blank
\* adds emitted nothing and there is never an error-level entry.
C23_OneEntryPerCall ==
    /\ Len(infoLogs) = Cardinality(CallsAt("info"))
    /\ Len(warnLogs) = Cardinality(CallsAt("warn"))
    /\ errorLogs = <<>>
    /\ Len(infoLogs) + Len(warnLogs) + Len(errorLogs)
          = Len(calls) - Cardinality(CallsAt("none"))

\* C23 witness: three calls, one a blank addTodo, one logged at info and
\* one at warn.
C23_Witness ==
    /\ Len(calls) = 3
    /\ Cardinality(CallsAt("none")) = 1
    /\ Len(infoLogs) = 1
    /\ Len(warnLogs) = 1

\* the number of info entries with the given message
InfoCount(message) ==
    Cardinality({i \in 1..Len(infoLogs) : infoLogs[i].message = message})

\* C29: while the log is never cleared, the length of todos equals the
\* number of 'Todo added' info entries minus the number of 'Todo removed'
\* info entries.
C29_LengthIsAddedMinusRemoved ==
    Len(todos) = InfoCount("Todo added") - InfoCount("Todo removed")

\* the log entry of the call in progress or just finished has been emitted
LastCallLogged ==
    Len(infoLogs) + Len(warnLogs)
        = Len(LastCall.pre.infoLogs) + Len(LastCall.pre.warnLogs) + 1

\* every observer registered when the last call began has received the
\* state that call published
LastCallBroadcast ==
    \A o \in LastCall.pre.listeners :
        delivered[o] = Append(LastCall.pre.delivered[o], todos)

\* C24: in every operation that changes the state, the logging service has
\* been called before any subscriber callback of that operation runs, and
\* when the operation returns to its caller both its log entry and its
\* broadcast are complete.
C24_LogThenBroadcastThenReturn ==
    [][ /\ delivered' # delivered =>
            /\ pc # Idle
            /\ LastCallLogged
            /\ UNCHANGED logVars
        /\ (pc' = Idle /\ (calls' # calls \/ pc # Idle) /\ LastCallMutated') =>
            /\ LastCallLogged'
            /\ LastCallBroadcast'
            /\ stateRef' # LastCall'.pre.ref
      ]_vars

\* C24 witness: toggleTodo of an id the store holds stands between its log
\* call and the broadcast: the entry is in the log, the registered observer
\* has not been called yet.
C24_Witness ==
    /\ pc.at = "toggleTodo:publish"
    /\ LastCall.pre.listeners # {}
    /\ LastCallLogged
    /\ delivered = LastCall.pre.delivered

\* the mock logger of a store
LoggerOf(s) == loggers[stores[s].loggingService]

\* the payloads of a sequence of log entries
Payloads(entries) == [i \in 1..Len(entries) |-> entries[i].data]

\* C25: the stores of TodoStoreFactory, DecoratedTodoStoreFactory and
\* createTodoStoreWithManualDI, having run the same operations at the same
\* clock readings, hold the same todos and have logged entries of the same
\* levels and payloads; only the texts of the info messages differ.
C25_ImplementationsAgree ==
    \A a \in DOMAIN stores : \A b \in DOMAIN stores :
        pos[a] = pos[b] =>
            /\ stores[a].todos = stores[b].todos
            /\ Payloads(LoggerOf(a).infoLogs) = Payloads(LoggerOf(b).infoLogs)
            /\ LoggerOf(a).warnLogs = LoggerOf(b).warnLogs
            /\ LoggerOf(a).errorLogs = LoggerOf(b).errorLogs

\* C25 witness: the three stores have each added a todo, toggled it and
\* removed it, the clock having moved after the script recorded the add.
C25_Witness ==
    /\ \A s \in DOMAIN stores : pos[s] = 3
    /\ DOMAIN stores = {"factory", "decorated", "manual"}
    /\ script[1].op = "addTodo"
    /\ script[2].op = "toggleTodo"
    /\ script[3].op = "removeTodo"
    /\ script[3].now # script[1].now
    /\ \A s \in DOMAIN stores : Len(LoggerOf(s).infoLogs) = 3

\* C26: an operation on one of two stores made by separate createTodoStore
\* calls changes neither the todos of the other store nor the log entries
\* of the logging service that was given to the other store only.
C26_StoresAreIndependent ==
    [][ \A s \in DOMAIN Given :
            pos'[s] = pos[s] =>
                /\ stores'[s].todos = stores[s].todos
                /\ loggers'[Given[s]] = loggers[Given[s]]
      ]_vars

\* C26 witness: both stores added a todo, under the same id, and the first
\* store removed its own: the second still holds its todo and its logger
\* one entry.
C26_Witness ==
    /\ DOMAIN stores = DOMAIN Given
    /\ pos["first"] = 2
    /\ pos["second"] = 1
    /\ script[2].op = "removeTodo"
    /\ stores["first"].todos = <<>>
    /\ Len(stores["second"].todos) = 1
    /\ stores["second"].todos[1].id = script[2].arg
    /\ Len(loggers["l1"].infoLogs) = 2
    /\ Len(loggers["l2"].infoLogs) = 1

\* C27: from componentDidMount until componentWillUnmount, after every store
\* operation, the todos in the component's state equal the store's todos,
\* whatever was done to the store before the mount.
C27_MountedComponentMirrorsStore ==
    component.unsubscribe # "null" => component.todos = todos

\* the closures of the component that are registered with the store
Registered == Closures \cap listeners

\* C30: whatever the sequence of componentDidMount and componentWillUnmount
\* calls, the component has at most one callback registered with the store,
\* and none once componentWillUnmount has run.
C30_AtMostOneSubscription ==
    /\ Cardinality(Registered) <= 1
    /\ component.unsubscribe = "null" => Registered = {}

====
